---- MODULE Spec2Model ----
(***************************************************************************)
(* cli-utils: the date utilities (src/date_utils.rs) and the abrupt        *)
(* termination contract of the library.  Every library function is pure:   *)
(* a call takes its arguments and returns a value, an error value, or      *)
(* panics.  A behaviour of the model is one call: the caller picks a       *)
(* function and its arguments, the function runs, the outcome is recorded. *)
(*                                                                         *)
(* Strings are sequences of one-character strings, so that parsing and     *)
(* formatting are computed character by character as chrono computes them. *)
(***************************************************************************)
EXTENDS Integers, Sequences, FiniteSets, TLC

VARIABLES pc,    \* "idle" before the call, "returned" after it; "fs" between file calls
          op,    \* name of the function called
          args,  \* the arguments of the call, in order
          res,   \* [kind |-> "ok" | "err" | "panic", val |-> the value]
          fs     \* the file system: what each path names

vars == <<pc, op, args, res, fs>>

(***************************************************************************)
(* Bounds of the model.                                                    *)
(***************************************************************************)
MaxLeapYear == 2401     \* is_leap_year is called with -MaxLeapYear..MaxLeapYear
MaxDayStep  == 3        \* add_days is called with every n in -MaxDayStep..MaxDayStep
MaxGcdArg   == 24       \* gcd and lcm are called with 0..MaxGcdArg and with large u64 values
MaxFactArg  == 22       \* factorial is called with 0..MaxFactArg
MaxPrimeArg == 400      \* is_prime is called with 0..MaxPrimeArg
MaxPalLen   == 4        \* is_palindrome is called with strings of at most MaxPalLen characters
MaxFileLen  == 3        \* append_to_file is called while the file stays within MaxFileLen characters
MaxLines    == 2        \* write_lines is called with at most MaxLines lines
MaxTake     == 3        \* read_first_n_lines is called with n in 0..MaxTake
MaxWords    == 3        \* interactive mode reads lines of at most MaxWords words

(***************************************************************************)
(* Integer arithmetic of the target.                                       *)
(***************************************************************************)
\* Rust's % on signed integers truncates towards zero.
Rem(a, b) == IF a >= 0 THEN a % b ELSE 0 - ((0 - a) % b)

\* num_integer::div_mod_floor as chrono uses it (b > 0).
DivFloor(a, b) == a \div b
ModFloor(a, b) == a % b

I32_MAX == 2147483647

(***************************************************************************)
(* Characters.                                                             *)
(***************************************************************************)
Digit == {"0", "1", "2", "3", "4", "5", "6", "7", "8", "9"}

DigitVal(c) ==
  CASE c = "0" -> 0 [] c = "1" -> 1 [] c = "2" -> 2 [] c = "3" -> 3
    [] c = "4" -> 4 [] c = "5" -> 5 [] c = "6" -> 6 [] c = "7" -> 7
    [] c = "8" -> 8 [] c = "9" -> 9

DigitChar(n) == <<"0", "1", "2", "3", "4", "5", "6", "7", "8", "9">>[n + 1]

(***************************************************************************)
(* is_leap_year                                                            *)
(***************************************************************************)
is_leap_year_no400(year) == Rem(year, 4) = 0 /\ Rem(year, 100) # 0

is_leap_year(year) ==
  (Rem(year, 4) = 0 /\ Rem(year, 100) # 0) \/ (Rem(year, 400) = 0)

(***************************************************************************)
(* chrono::NaiveDate: a year and the ordinal (day of the year, from 1).    *)
(* Option<T> is a sequence: <<>> is None, <<v>> is Some(v).                *)
(***************************************************************************)
MIN_YEAR == -262143
MAX_YEAR == 262142

\* The leap-year flag chrono keeps in YearFlags (YEAR_TO_FLAGS[year mod 400]).
LeapFlag(year) ==
  LET ym == ModFloor(year, 400)
  IN  ym % 4 = 0 /\ (ym % 100 # 0 \/ ym = 0)

NDays(year) == IF LeapFlag(year) THEN 366 ELSE 365

DaysInMonth(year, m) ==
  CASE m \in {1, 3, 5, 7, 8, 10, 12} -> 31
    [] m \in {4, 6, 9, 11} -> 30
    [] m = 2 -> IF LeapFlag(year) THEN 29 ELSE 28

RECURSIVE DaysBeforeMonth(_, _)
DaysBeforeMonth(year, m) ==
  IF m <= 1 THEN 0 ELSE DaysBeforeMonth(year, m - 1) + DaysInMonth(year, m - 1)

\* NaiveDate::from_ymd_opt: Mdf -> Of, None when the month or day does not
\* exist in that year or the year is outside MIN_YEAR..MAX_YEAR.
from_ymd_opt(y, m, d) ==
  IF /\ y >= MIN_YEAR /\ y <= MAX_YEAR
     /\ m >= 1 /\ m <= 12
     /\ d >= 1 /\ d <= DaysInMonth(y, m)
  THEN << [year |-> y, ordinal |-> DaysBeforeMonth(y, m) + d] >>
  ELSE << >>

\* NaiveDate::from_yo_opt, used by the arithmetic below.
from_yo_opt(y, o) ==
  IF y >= MIN_YEAR /\ y <= MAX_YEAR /\ o >= 1 /\ o <= NDays(y)
  THEN << [year |-> y, ordinal |-> o] >>
  ELSE << >>

\* NaiveDate::month and NaiveDate::day (Of -> Mdf).
MonthOf(date) ==
  CHOOSE m \in 1..12 :
    /\ DaysBeforeMonth(date.year, m) < date.ordinal
    /\ date.ordinal <= DaysBeforeMonth(date.year, m) + DaysInMonth(date.year, m)

DayOf(date) == date.ordinal - DaysBeforeMonth(date.year, MonthOf(date))

\* internals::YEAR_DELTAS: leap days of the 400-year cycle before year ym.
YEAR_DELTAS_NoCentury(ym) == IF ym = 0 THEN 0 ELSE 1 + ((ym - 1) \div 4)

YEAR_DELTAS(ym) ==
  IF ym = 0 THEN 0 ELSE 1 + ((ym - 1) \div 4) - ((ym - 1) \div 100)

yo_to_cycle(ym, ordinal) == ym * 365 + YEAR_DELTAS(ym) + ordinal - 1

cycle_to_yo(cycle) ==
  LET ym0 == cycle \div 365
      o0  == cycle % 365
      delta == YEAR_DELTAS(ym0)
  IN  IF o0 < delta
      THEN [ym |-> ym0 - 1, ordinal |-> o0 + 365 - YEAR_DELTAS(ym0 - 1) + 1]
      ELSE [ym |-> ym0, ordinal |-> o0 - delta + 1]

\* NaiveDate - NaiveDate (signed_duration_since), in days.
signed_duration_since_abs(d1, d2) ==
  LET n == (DivFloor(d1.year, 400) - DivFloor(d2.year, 400)) * 146097
           + (yo_to_cycle(ModFloor(d1.year, 400), d1.ordinal)
              - yo_to_cycle(ModFloor(d2.year, 400), d2.ordinal))
  IN  IF n < 0 THEN 0 - n ELSE n

signed_duration_since(d1, d2) ==
  (DivFloor(d1.year, 400) - DivFloor(d2.year, 400)) * 146097
  + (yo_to_cycle(ModFloor(d1.year, 400), d1.ordinal)
     - yo_to_cycle(ModFloor(d2.year, 400), d2.ordinal))

\* NaiveDate::checked_add_signed(Duration::days(days)): None when the day
\* count does not fit an i32 or the date leaves MIN_YEAR..MAX_YEAR.
checked_add_days(date, days) ==
  LET c0 == yo_to_cycle(ModFloor(date.year, 400), date.ordinal)
  IN  IF days > I32_MAX - c0
      THEN << >>
      ELSE LET c1 == c0 + days
               yo == cycle_to_yo(ModFloor(c1, 146097))
           IN  from_yo_opt((DivFloor(date.year, 400) + DivFloor(c1, 146097)) * 400 + yo.ym,
                           yo.ordinal)

\* NaiveDate::weekday: (ordinal + the weekday bits of the year's flags) mod 7,
\* 0 = Monday .. 6 = Sunday.  The flag bits of year ym of the cycle place
\* 1 January: year 0 of the cycle (2000) starts on a Saturday.
YearFlagDelta(year) ==
  LET ym == ModFloor(year, 400)
  IN  (5 + ym + YEAR_DELTAS(ym) + 6) % 7

weekday_noflags(date) == (date.ordinal + 6) % 7

weekday(date) == (date.ordinal + YearFlagDelta(date.year)) % 7

(***************************************************************************)
(* chrono::format::strftime::StrftimeItems: a format string as items.      *)
(* The model's format strings are over the directives %Y %m %d %A %% and   *)
(* the unknown directive %Q, with literals that are not white space.       *)
(***************************************************************************)
SpecItem(c) ==
  CASE c = "Y" -> [t |-> "num",   c |-> "Y"]
    [] c = "m" -> [t |-> "num",   c |-> "m"]
    [] c = "d" -> [t |-> "num",   c |-> "d"]
    [] c = "A" -> [t |-> "fixed", c |-> "A"]
    [] c = "%" -> [t |-> "lit",   c |-> "%"]
    [] c = "Q" -> [t |-> "error", c |-> "Q"]

RECURSIVE StrftimeItems(_)
StrftimeItems(f) ==
  IF f = << >> THEN << >>
  ELSE IF Head(f) = "%"
       THEN IF Len(f) = 1
            THEN << [t |-> "error", c |-> "%"] >>
            ELSE << SpecItem(f[2]) >> \o StrftimeItems(SubSeq(f, 3, Len(f)))
       ELSE << [t |-> "lit", c |-> Head(f)] >> \o StrftimeItems(Tail(f))

(***************************************************************************)
(* chrono::format::scan                                                    *)
(***************************************************************************)
RECURSIVE DigitPrefixLen(_, _)
DigitPrefixLen(s, max) ==
  IF s = << >> \/ max = 0 \/ Head(s) \notin Digit
  THEN 0
  ELSE 1 + DigitPrefixLen(Tail(s), max - 1)

\* The value of a run of digits.  A value above NUM_SAT is kept as NUM_SAT:
\* such a value is a parse error for every field (i64 overflow in
\* scan::number, the i32 conversion of the setter, or the range check of
\* the date), and NUM_SAT is one as well.
NUM_SAT == 99999999

RECURSIVE NumVal(_, _)
NumVal(ds, acc) ==
  IF ds = << >> THEN acc
  ELSE NumVal(Tail(ds),
              IF acc * 10 + DigitVal(Head(ds)) > NUM_SAT
              THEN NUM_SAT
              ELSE acc * 10 + DigitVal(Head(ds)))

\* scan::number(s, min, max): at least min and at most max digits.
number(s, min, max) ==
  LET k == DigitPrefixLen(s, max)
  IN  IF Len(s) < min \/ k < min
      THEN [ok |-> FALSE]
      ELSE [ok |-> TRUE, v |-> NumVal(SubSeq(s, 1, k), 0),
            rest |-> SubSeq(s, k + 1, Len(s))]

Lower(c) ==
  CASE c = "M" -> "m" [] c = "T" -> "t" [] c = "W" -> "w" [] c = "F" -> "f"
    [] c = "S" -> "s" [] c = "A" -> "a" [] c = "Y" -> "y" [] c = "Q" -> "q"
    [] OTHER -> c

RECURSIVE LowerAll(_)
LowerAll(s) == IF s = << >> THEN << >> ELSE << Lower(Head(s)) >> \o LowerAll(Tail(s))

SHORT_WEEKDAYS ==
  << <<"m","o","n">>, <<"t","u","e">>, <<"w","e","d">>, <<"t","h","u">>,
     <<"f","r","i">>, <<"s","a","t">>, <<"s","u","n">> >>

LONG_WEEKDAY_SUFFIXES ==
  << <<"d","a","y">>, <<"s","d","a","y">>, <<"n","e","s","d","a","y">>,
     <<"r","s","d","a","y">>, <<"d","a","y">>, <<"u","r","d","a","y">>,
     <<"d","a","y">> >>

\* scan::short_or_long_weekday: three letters, then the rest of the long
\* name when it follows; letter case is ignored.  v is 0 = Monday .. 6.
short_or_long_weekday(s) ==
  IF Len(s) < 3 THEN [ok |-> FALSE]
  ELSE LET head3 == LowerAll(SubSeq(s, 1, 3))
           hits  == {i \in 1..7 : SHORT_WEEKDAYS[i] = head3}
       IN  IF hits = {} THEN [ok |-> FALSE]
           ELSE LET i    == CHOOSE j \in hits : TRUE
                    suf  == LONG_WEEKDAY_SUFFIXES[i]
                    rest == SubSeq(s, 4, Len(s))
                IN  IF Len(rest) >= Len(suf)
                       /\ LowerAll(SubSeq(rest, 1, Len(suf))) = suf
                    THEN [ok |-> TRUE, v |-> i - 1,
                          rest |-> SubSeq(rest, Len(suf) + 1, Len(rest))]
                    ELSE [ok |-> TRUE, v |-> i - 1, rest |-> rest]

(***************************************************************************)
(* chrono::format::Parsed and chrono::format::parse                        *)
(***************************************************************************)
NoFields == [year |-> << >>, month |-> << >>, day |-> << >>, weekday |-> << >>]

\* Parsed::set_*: set_if_consistent refuses a second, different value.
SetField(p, f, v) ==
  IF p[f] = << >> THEN [ok |-> TRUE, p |-> [p EXCEPT ![f] = << v >>]]
  ELSE IF p[f] = << v >> THEN [ok |-> TRUE, p |-> p]
  ELSE [ok |-> FALSE]

FieldOf(c) == CASE c = "Y" -> "year" [] c = "m" -> "month" [] c = "d" -> "day"

\* The numeric items: %Y is signed and four digits wide unless an explicit
\* sign precedes it; %m and %d are unsigned, at most two digits.
ScanNumeric(s, c) ==
  IF c = "Y"
  THEN IF s # << >> /\ Head(s) = "-"
       THEN LET r == number(Tail(s), 1, Len(s))
            IN  IF r.ok THEN [ok |-> TRUE, v |-> 0 - r.v, rest |-> r.rest] ELSE r
       ELSE IF s # << >> /\ Head(s) = "+"
            THEN number(Tail(s), 1, Len(s))
            ELSE number(s, 1, 4)
  ELSE number(s, 1, 2)

RECURSIVE parse_internal(_, _, _)
parse_internal(s, items, p) ==
  IF items = << >>
  THEN IF s = << >> THEN [ok |-> TRUE, p |-> p] ELSE [ok |-> FALSE]   \* TOO_LONG
  ELSE LET it == Head(items) IN
    CASE it.t = "lit" ->
           IF s = << >> \/ Head(s) # it.c
           THEN [ok |-> FALSE]                                         \* TOO_SHORT, INVALID
           ELSE parse_internal(Tail(s), Tail(items), p)
      [] it.t = "num" ->
           LET r == ScanNumeric(s, it.c)
           IN  IF ~r.ok THEN [ok |-> FALSE]
               ELSE LET q == SetField(p, FieldOf(it.c), r.v)
                    IN  IF ~q.ok THEN [ok |-> FALSE]                   \* IMPOSSIBLE
                        ELSE parse_internal(r.rest, Tail(items), q.p)
      [] it.t = "fixed" ->
           LET r == short_or_long_weekday(s)
           IN  IF ~r.ok THEN [ok |-> FALSE]
               ELSE LET q == SetField(p, "weekday", r.v)
                    IN  IF ~q.ok THEN [ok |-> FALSE]
                        ELSE parse_internal(r.rest, Tail(items), q.p)
      [] it.t = "error" -> [ok |-> FALSE]                              \* BAD_FORMAT

\* Parsed::to_naive_date: year, month and day must all be there
\* (NOT_ENOUGH), must name a date (OUT_OF_RANGE), and a parsed weekday must
\* be that date's weekday (IMPOSSIBLE).
to_naive_date(p) ==
  IF p.year = << >> \/ p.month = << >> \/ p.day = << >>
  THEN << >>
  ELSE LET d == from_ymd_opt(p.year[1], p.month[1], p.day[1])
       IN  IF d = << >> THEN << >>
           ELSE IF p.weekday # << >> /\ p.weekday[1] # weekday(d[1])
                THEN << >>
                ELSE d

\* The variant that skips the calendar check of the day.
parse_from_str_anyday(s, fmt) ==
  LET r == parse_internal(s, StrftimeItems(fmt), NoFields)
  IN  IF ~r.ok \/ r.p.year = << >> \/ r.p.month = << >> \/ r.p.day = << >>
      THEN << >>
      ELSE IF r.p.month[1] \in 1..12 /\ r.p.day[1] \in 1..31
           THEN << [year |-> r.p.year[1],
                    ordinal |-> DaysBeforeMonth(r.p.year[1], r.p.month[1]) + r.p.day[1]] >>
           ELSE << >>

\* NaiveDate::parse_from_str: Some(date), or None for every ParseError.
parse_from_str(s, fmt) ==
  LET r == parse_internal(s, StrftimeItems(fmt), NoFields)
  IN  IF r.ok THEN to_naive_date(r.p) ELSE << >>

(***************************************************************************)
(* chrono::format: NaiveDate::format(fmt).to_string()                      *)
(***************************************************************************)
RECURSIVE DecDigits(_)
DecDigits(n) ==
  IF n < 10 THEN << DigitChar(n) >>
  ELSE DecDigits(n \div 10) \o << DigitChar(n % 10) >>

RECURSIVE PadLeft(_, _)
PadLeft(ds, w) == IF Len(ds) >= w THEN ds ELSE PadLeft(<<"0">> \o ds, w)

FormatYear_NoPad(y) == IF y < 0 THEN <<"-">> \o DecDigits(0 - y) ELSE DecDigits(y)

\* %Y: four digits, and an explicit sign outside 0..9999.
FormatYear(y) ==
  IF y >= 0 /\ y < 10000 THEN PadLeft(DecDigits(y), 4)
  ELSE IF y < 0 THEN <<"-">> \o PadLeft(DecDigits(0 - y), 4)
  ELSE <<"+">> \o PadLeft(DecDigits(y), 4)

LONG_WEEKDAYS ==
  << <<"M","o","n","d","a","y">>, <<"T","u","e","s","d","a","y">>,
     <<"W","e","d","n","e","s","d","a","y">>, <<"T","h","u","r","s","d","a","y">>,
     <<"F","r","i","d","a","y">>, <<"S","a","t","u","r","d","a","y">>,
     <<"S","u","n","d","a","y">> >>

FormatItem(date, it) ==
  CASE it.t = "lit" -> << it.c >>
    [] it.t = "num" /\ it.c = "Y" -> FormatYear(date.year)
    [] it.t = "num" /\ it.c = "m" -> PadLeft(DecDigits(MonthOf(date)), 2)
    [] it.t = "num" /\ it.c = "d" -> PadLeft(DecDigits(DayOf(date)), 2)
    [] it.t = "fixed" -> LONG_WEEKDAYS[weekday(date) + 1]

RECURSIVE FormatItems(_, _)
FormatItems(date, items) ==
  IF items = << >> THEN << >>
  ELSE FormatItem(date, Head(items)) \o FormatItems(date, Tail(items))

\* Display for DelayedFormat fails on an Item::Error, and to_string()
\* panics when Display fails.
FormatFails(fmt) == \E i \in DOMAIN StrftimeItems(fmt) : StrftimeItems(fmt)[i].t = "error"

Ok(v)  == [kind |-> "ok", val |-> v]
Err    == [kind |-> "err", val |-> << >>]
Panic  == [kind |-> "panic", val |-> << >>]

format_to_string(date, fmt) ==
  IF FormatFails(fmt) THEN Panic ELSE Ok(FormatItems(date, StrftimeItems(fmt)))

(***************************************************************************)
(* src/date_utils.rs                                                       *)
(***************************************************************************)
FMT_YMD == <<"%", "Y", "-", "%", "m", "-", "%", "d">>     \* "%Y-%m-%d"
FMT_DMY == <<"%", "d", "/", "%", "m", "/", "%", "Y">>     \* "%d/%m/%Y"
FMT_A   == <<"%", "A">>                                   \* "%A"

date_difference_days_abs(date1, date2) ==
  LET d1 == parse_from_str(date1, FMT_YMD)
      d2 == parse_from_str(date2, FMT_YMD)
  IN  IF d1 = << >> \/ d2 = << >> THEN Err
      ELSE Ok(signed_duration_since_abs(d1[1], d2[1]))

date_difference_days(date1, date2) ==
  LET d1 == parse_from_str(date1, FMT_YMD)
  IN  IF d1 = << >> THEN Err
      ELSE LET d2 == parse_from_str(date2, FMT_YMD)
           IN  IF d2 = << >> THEN Err
               ELSE Ok(signed_duration_since(d1[1], d2[1]))

validate_date_format_anyday(date_str, format) ==
  Ok(parse_from_str_anyday(date_str, format) # << >>)

validate_date_format(date_str, format) ==
  Ok(parse_from_str(date_str, format) # << >>)

format_date(date_str, input_format, output_format) ==
  LET date == parse_from_str(date_str, input_format)
  IN  IF date = << >> THEN Err
      ELSE format_to_string(date[1], output_format)

to_dd_mm_yyyy(date_str) == format_date(date_str, FMT_YMD, FMT_DMY)

to_yyyy_mm_dd_mdy(date_str) ==
  format_date(date_str, <<"%", "m", "/", "%", "d", "/", "%", "Y">>, FMT_YMD)

to_yyyy_mm_dd(date_str) == format_date(date_str, FMT_DMY, FMT_YMD)

\* Local::now() is the argument `now`: the date the clock shows.
current_date(now, format) == format_to_string(now, format)

\* date + Duration::days(days) panics when checked_add_signed is None.
\* (Duration::days itself panics beyond about 10^11 days, where the sum is
\* out of range as well.)
add_days(date_str, days) ==
  LET date == parse_from_str(date_str, FMT_YMD)
  IN  IF date = << >> THEN Err
      ELSE LET new_date == checked_add_days(date[1], days)
           IN  IF new_date = << >> THEN Panic
               ELSE format_to_string(new_date[1], FMT_YMD)

day_of_week(date_str) ==
  LET date == parse_from_str(date_str, FMT_YMD)
  IN  IF date = << >> THEN Err
      ELSE format_to_string(date[1], FMT_A)

(***************************************************************************)
(* src/math_utils.rs.  A u64 value is a little-endian sequence of          *)
(* base-10000 limbs without leading zero limbs (zero is the empty          *)
(* sequence), since 20! and 2^64 do not fit the checker's integers.        *)
(***************************************************************************)
RECURSIVE MulSmall(_, _, _)
MulSmall(x, k, carry) ==
  IF x = << >>
  THEN IF carry = 0 THEN << >> ELSE << carry >>
  ELSE LET t == Head(x) * k + carry
       IN  << t % 10000 >> \o MulSmall(Tail(x), k, t \div 10000)

RECURSIVE BigNorm(_)
BigNorm(x) ==
  IF x = << >> THEN << >>
  ELSE IF x[Len(x)] = 0 THEN BigNorm(SubSeq(x, 1, Len(x) - 1))
  ELSE x

RECURSIVE ToBig(_)
ToBig(n) == IF n = 0 THEN << >> ELSE << n % 10000 >> \o ToBig(n \div 10000)

\* -1, 0 or 1 as x is below, equal to or above y (both without leading zeros).
RECURSIVE BigCmpFrom(_, _, _)
BigCmpFrom(x, y, i) ==
  IF i = 0 THEN 0
  ELSE IF x[i] < y[i] THEN -1
  ELSE IF x[i] > y[i] THEN 1
  ELSE BigCmpFrom(x, y, i - 1)

BigCmp(x, y) ==
  IF Len(x) < Len(y) THEN -1
  ELSE IF Len(x) > Len(y) THEN 1
  ELSE BigCmpFrom(x, y, Len(x))

RECURSIVE BigAddC(_, _, _)
BigAddC(x, y, carry) ==
  IF x = << >> /\ y = << >>
  THEN IF carry = 0 THEN << >> ELSE << carry >>
  ELSE LET a == IF x = << >> THEN 0 ELSE Head(x)
           b == IF y = << >> THEN 0 ELSE Head(y)
           t == a + b + carry
       IN  << t % 10000 >>
             \o BigAddC(IF x = << >> THEN x ELSE Tail(x),
                        IF y = << >> THEN y ELSE Tail(y), t \div 10000)

BigAdd(x, y) == BigNorm(BigAddC(x, y, 0))

\* x - y for x >= y.
RECURSIVE BigSubB(_, _, _)
BigSubB(x, y, borrow) ==
  IF x = << >> THEN << >>
  ELSE LET b == IF y = << >> THEN 0 ELSE Head(y)
           t == Head(x) - b - borrow
       IN  << t % 10000 >>
             \o BigSubB(Tail(x), IF y = << >> THEN y ELSE Tail(y),
                        IF t < 0 THEN 1 ELSE 0)

BigSub(x, y) == BigNorm(BigSubB(x, y, 0))

RECURSIVE BigMul(_, _)
BigMul(x, y) ==
  IF x = << >> \/ y = << >> THEN << >>
  ELSE BigAdd(MulSmall(x, Head(y), 0), BigNorm(<< 0 >> \o BigMul(x, Tail(y))))

\* The largest q in lo..hi with y * q <= r.
RECURSIVE QuotientLimb(_, _, _, _)
QuotientLimb(lo, hi, r, y) ==
  IF lo = hi THEN lo
  ELSE LET mid == (lo + hi + 1) \div 2
       IN  IF BigCmp(BigNorm(MulSmall(y, mid, 0)), r) <= 0
           THEN QuotientLimb(mid, hi, r, y)
           ELSE QuotientLimb(lo, mid - 1, r, y)

\* Long division of x by y # 0, taking the limbs of x from the top.
RECURSIVE BigDivModFrom(_, _, _, _)
BigDivModFrom(x, y, i, r) ==
  IF i = 0 THEN [q |-> << >>, r |-> r]
  ELSE LET cur  == BigNorm(<< x[i] >> \o r)
           d    == QuotientLimb(0, 9999, cur, y)
           rest == BigDivModFrom(x, y, i - 1, BigSub(cur, BigNorm(MulSmall(y, d, 0))))
       IN  [q |-> rest.q \o << d >>, r |-> rest.r]

BigDivMod(x, y) ==
  LET dm == BigDivModFrom(x, y, Len(x), << >>)
  IN  [q |-> BigNorm(dm.q), r |-> dm.r]

BigDiv(x, y) == BigDivMod(x, y).q
BigRem(x, y) == BigDivMod(x, y).r

U64_MAX == << 1615, 955, 737, 6744, 1844 >>
TWO_64  == << 1616, 955, 737, 6744, 1844 >>

\* The two ways the crate can be built: overflow checks on (debug, where an
\* overflowing u64 multiplication panics) or off (release, where it wraps).
Builds == { "debug", "release" }

PanicWith(msg) == [kind |-> "panic", val |-> << msg >>]

\* x * y on u64.
mul_u64(x, y, build) ==
  LET p == BigMul(x, y)
  IN  IF BigCmp(p, U64_MAX) <= 0 THEN Ok(p)
      ELSE IF build = "debug"
      THEN PanicWith("attempt to multiply with overflow")
      ELSE Ok(BigRem(p, TWO_64))

\* factorial, with the number of multiplications it has performed.
RECURSIVE factorial_run(_, _)
factorial_run(n, build) ==
  IF n > 20
  THEN [out |-> PanicWith("Factorial input too large (max 20 to prevent overflow)"), muls |-> 0]
  ELSE IF n = 0 \/ n = 1 THEN [out |-> Ok(<< 1 >>), muls |-> 0]
  ELSE LET inner == factorial_run(n - 1, build)
       IN  IF inner.out.kind = "panic" THEN inner
           ELSE [out  |-> mul_u64(ToBig(n), inner.out.val, build),
                 muls |-> inner.muls + 1]

\* factorial with its guard placed one too high.
factorial_guard21(n, build) ==
  IF n > 21 THEN PanicWith("Factorial input too large (max 20 to prevent overflow)")
  ELSE IF n = 21 THEN mul_u64(ToBig(21), factorial_run(20, build).out.val, build)
  ELSE factorial_run(n, build).out

factorial(n, build) == factorial_run(n, build).out

\* gcd with the loop body run at most once.
gcd_once(a, b) == IF b # << >> /\ BigRem(a, b) # << >> THEN BigRem(a, b) ELSE IF b # << >> THEN b ELSE a

\* gcd: the loop of lines 52-56, one iteration per unfolding.
RECURSIVE gcd(_, _)
gcd(a, b) ==
  IF b # << >>
  THEN LET temp == b
       IN  gcd(temp, BigRem(a, b))
  ELSE a

\* (n as f64).sqrt() as u64: the square root rounded down.  The conversion
\* to f64 and the rounded root are exact below 2^52, and every n the model
\* passes is far below that.
RECURSIVE sqrt_as_u64(_, _)
sqrt_as_u64(n, r) == IF (r + 1) * (r + 1) > n THEN r ELSE sqrt_as_u64(n, r + 1)

\* The loop of lines 87-91 from candidate i on; last is the end of the range.
RECURSIVE trial_division(_, _, _)
trial_division(n, i, last) ==
  IF i > last THEN TRUE
  ELSE IF n % i = 0 THEN FALSE
  ELSE trial_division(n, i + 2, last)

\* is_prime with the range 3..sqrt_n taken without its end.
is_prime_exclusive(n) ==
  IF n < 2 THEN FALSE
  ELSE IF n = 2 THEN TRUE
  ELSE IF n % 2 = 0 THEN FALSE
  ELSE trial_division(n, 3, sqrt_as_u64(n, 0) - 1)

is_prime(n) ==
  IF n < 2 THEN FALSE
  ELSE IF n = 2 THEN TRUE
  ELSE IF n % 2 = 0 THEN FALSE
  ELSE LET sqrt_n == sqrt_as_u64(n, 0)
       IN  trial_division(n, 3, sqrt_n)

\* lcm: the product a * b is formed first, as a u64, and divided afterwards.
lcm(a, b, build) ==
  IF a = << >> \/ b = << >> THEN Ok(<< >>)
  ELSE LET product == mul_u64(a, b, build)
       IN  IF product.kind = "panic" THEN product
           ELSE Ok(BigDiv(product.val, gcd(a, b)))

(***************************************************************************)
(* The arguments the calls are made with.                                  *)
(***************************************************************************)
GenYears  == {1900, 2000, 2023, 2024}
GenMonths == {0, 1, 2, 3, 12, 13}
GenDays   == {0, 1, 28, 29, 30, 31, 32}

Num(n, w) == PadLeft(DecDigits(n), w)

\* y-m-d and d/m/y with fields of at least w digits (w = 1: unpadded).
MkYmd(y, m, d, w) == Num(y, 2 * w) \o <<"-">> \o Num(m, w) \o <<"-">> \o Num(d, w)
MkDmy(y, m, d, w) == Num(d, w) \o <<"/">> \o Num(m, w) \o <<"/">> \o Num(y, 2 * w)

EdgeStrs ==
  { << >>,
    <<"i","n","v","a","l","i","d","-","d","a","t","e">>,
    <<"2","0","2","3","-","1","2">>,
    <<"2","0","2","3","-","1","2","-","2","5","x">>,
    <<"2","0","2","3","/","1","2","/","2","5">>,
    <<"2","0","a","3","-","1","2","-","2","5">>,
    <<"2","0","2","3","-","0","1","2","-","2","5">>,
    <<"0","0","0","0","-","0","1","-","0","1">>,
    <<"9","9","9","9","-","1","2","-","3","1">>,
    <<"+","2","0","2","3","-","1","2","-","2","5">>,
    <<"+","1","0","0","0","0","-","0","1","-","0","1">>,
    <<"-","0","0","0","1","-","1","2","-","3","1">>,
    <<"+","2","6","2","1","4","2","-","1","2","-","3","1">>,
    <<"-","2","6","2","1","4","3","-","0","1","-","0","1">>,
    <<"+","2","6","2","1","4","3","-","0","1","-","0","1">>,
    <<"1","2","3","4","5","-","0","1","-","0","1">>,
    <<"M","o","n","d","a","y">>,
    <<"M","o","n","d","a","y",",","2","5","/","1","2","/","2","0","2","3">>,
    <<"m","o","n",",","2","5","/","1","2","/","2","0","2","3">>,
    <<"T","u","e","s","d","a","y",",","2","5","/","1","2","/","2","0","2","3">>,
    <<"2","0","2","3","1","2","2","5">>,
    <<"2","5","%","1","2","%","2","0","2","3">> }

YmdStrs == { MkYmd(y, m, d, w) : y \in GenYears, m \in GenMonths, d \in GenDays, w \in {1, 2} }
DmyStrs == { MkDmy(y, m, d, 2) : y \in GenYears, m \in GenMonths, d \in GenDays }

DateStrs == YmdStrs \cup EdgeStrs
AnyStrs  == DateStrs \cup DmyStrs

Formats ==
  { FMT_YMD, FMT_DMY, FMT_A,
    <<"%","Y","%","m","%","d">>,                                \* "%Y%m%d"
    <<"%","Y","-","%","m">>,                                    \* "%Y-%m"
    <<"%","A",",","%","d","/","%","m","/","%","Y">>,            \* "%A,%d/%m/%Y"
    <<"%","d","%","%","%","m","%","%","%","Y">>,                \* "%d%%%m%%%Y"
    <<"%","Q">>,                                                \* "%Q"
    <<"%","Y","-","%","m","-","%","d","%">> }                   \* "%Y-%m-%d%"

DayCounts ==
  (-MaxDayStep .. MaxDayStep)
  \cup {-366, -365, 365, 366, -36525, 36524, -146097, 146097, -730000, 2920000,
        -200000000, 200000000, -2147483647, 2147483647}

NowDates ==
  { from_ymd_opt(y, m, d)[1] :
      y \in GenYears, m \in GenMonths \cap (1..12), d \in GenDays \cap (1..28) }

(***************************************************************************)
(* src/string_utils.rs: is_palindrome.  char::is_alphanumeric and          *)
(* char::to_lowercase on the characters the model passes; to_lowercase     *)
(* yields the characters of the lower-case form, two of them for U+0130.   *)
(***************************************************************************)
is_alphanumeric(c) == c \notin { " ", "\t", "\n", "\r", "+", "-" }

to_lowercase(c) ==
  CASE c = "A" -> << "a" >>
    [] c = "É" -> << "é" >>
    [] c = "U+0130" -> << "i", "U+0307" >>
    [] OTHER   -> << c >>

\* s.chars().filter(|c| c.is_alphanumeric())
RECURSIVE filter_alphanumeric(_)
filter_alphanumeric(s) ==
  IF s = << >> THEN << >>
  ELSE IF is_alphanumeric(Head(s))
  THEN << Head(s) >> \o filter_alphanumeric(Tail(s))
  ELSE filter_alphanumeric(Tail(s))

\* .map(|c| c.to_lowercase().next().unwrap())
RECURSIVE map_lowercase_first(_)
map_lowercase_first(s) ==
  IF s = << >> THEN << >>
  ELSE << Head(to_lowercase(Head(s))) >> \o map_lowercase_first(Tail(s))

\* chars().rev().collect()
RECURSIVE rev(_)
rev(s) == IF s = << >> THEN << >> ELSE rev(Tail(s)) \o << Head(s) >>

\* is_palindrome without the lower-casing.
is_palindrome_case_sensitive(s) ==
  LET normalized == filter_alphanumeric(s)
  IN  normalized = rev(normalized)

is_palindrome(s) ==
  LET normalized == map_lowercase_first(filter_alphanumeric(s))
  IN  normalized = rev(normalized)

PalChars == { "a", "A", "b", "i", "1", " ", "é", "É", "U+0130" }
PalStrs == UNION { [1 .. n -> PalChars] : n \in 0 .. MaxPalLen }

(***************************************************************************)
(* src/file_io_utils.rs over std::fs.  A path names nothing, a directory   *)
(* or a file; a file holds a sequence of characters, each one or two bytes *)
(* of UTF-8, or the byte "0xFF" that no UTF-8 text contains.               *)
(***************************************************************************)
Paths == { "p", "q" }

Absent  == [kind |-> "absent", data |-> << >>]
Dir     == [kind |-> "dir", data |-> << >>]
File(d) == [kind |-> "file", data |-> d]

IoErr(k) == [kind |-> "err", val |-> << k >>]
Unit == << >>

\* str::len, Metadata::len: the length in bytes.
RECURSIVE len(_)
len(d) ==
  IF d = << >> THEN 0
  ELSE (IF Head(d) = "é" THEN 2 ELSE 1) + len(Tail(d))

\* String::from_utf8 succeeds.
is_utf8(d) == \A i \in 1 .. Len(d) : d[i] # "0xFF"

\* The platforms std::fs behaves differently on, where the model needs it.
Platforms == { "unix", "windows" }

\* What Metadata::len reports for a directory.
DirLens == { 0, 4096 }

read_file_to_string(f, file_path) ==
  CASE f[file_path].kind = "absent" -> IoErr("NotFound")
    [] f[file_path].kind = "dir"    -> IoErr("IsADirectory")
    [] OTHER -> IF is_utf8(f[file_path].data)
                THEN Ok(f[file_path].data)
                ELSE IoErr("InvalidData")

write_string_to_file(f, file_path, content) ==
  IF f[file_path].kind = "dir"
  THEN [res |-> IoErr("IsADirectory"), fs |-> f]
  ELSE [res |-> Ok(Unit), fs |-> [f EXCEPT ![file_path] = File(content)]]

\* write_string_to_file that keeps what the file held.
append_to_file_as_write(f, file_path, content) == write_string_to_file(f, file_path, content)

append_to_file(f, file_path, content) ==
  CASE f[file_path].kind = "dir" -> [res |-> IoErr("IsADirectory"), fs |-> f]
    [] f[file_path].kind = "absent" ->
         [res |-> Ok(Unit), fs |-> [f EXCEPT ![file_path] = File(content)]]
    [] OTHER ->
         [res |-> Ok(Unit),
          fs  |-> [f EXCEPT ![file_path] = File(f[file_path].data \o content)]]

\* Position of the first "\n" in d, or 0.
RECURSIVE find_newline(_, _)
find_newline(d, i) ==
  IF i > Len(d) THEN 0
  ELSE IF d[i] = "\n" THEN i
  ELSE find_newline(d, i + 1)

\* BufRead::lines: each item is the text up to the next "\n", without the
\* "\n" and without a "\r" in front of it; what follows the last "\n" is an
\* item when it is not empty.
RECURSIVE lines(_)
lines(d) ==
  IF d = << >> THEN << >>
  ELSE LET k == find_newline(d, 1)
       IN  IF k = 0 THEN << d >>
           ELSE LET line == SubSeq(d, 1, k - 1)
                    cut  == IF line # << >> /\ line[Len(line)] = "\r"
                            THEN SubSeq(line, 1, Len(line) - 1)
                            ELSE line
                IN  << cut >> \o lines(SubSeq(d, k + 1, Len(d)))

\* Iterator::take
take(items, n) == SubSeq(items, 1, IF n < Len(items) THEN n ELSE Len(items))

\* collect::<io::Result<Vec<String>>>: the first item that is not UTF-8 is
\* the error returned.
collect(items) ==
  IF \A i \in 1 .. Len(items) : is_utf8(items[i])
  THEN Ok(items)
  ELSE IoErr("InvalidData")

read_lines(f, file_path) ==
  CASE f[file_path].kind = "absent" -> IoErr("NotFound")
    [] f[file_path].kind = "dir"    -> IoErr("IsADirectory")
    [] OTHER -> collect(lines(f[file_path].data))

\* join that ends every line with "\n".
RECURSIVE join_terminated(_)
join_terminated(ls) ==
  IF ls = << >> THEN << >>
  ELSE ls[1] \o << "\n" >> \o join_terminated(Tail(ls))

\* [String]::join("\n")
RECURSIVE join(_)
join(ls) ==
  IF ls = << >> THEN << >>
  ELSE IF Len(ls) = 1 THEN ls[1]
  ELSE ls[1] \o << "\n" >> \o join(Tail(ls))

write_lines(f, file_path, ls) ==
  LET content == join(ls)
  IN  write_string_to_file(f, file_path, content)

file_exists(f, file_path) == f[file_path].kind # "absent"

\* file_size counting characters.
file_size_chars(f, file_path, dir_len) ==
  CASE f[file_path].kind = "absent" -> IoErr("NotFound")
    [] f[file_path].kind = "dir"    -> Ok(dir_len)
    [] OTHER                        -> Ok(Len(f[file_path].data))

file_size(f, file_path, dir_len) ==
  CASE f[file_path].kind = "absent" -> IoErr("NotFound")
    [] f[file_path].kind = "dir"    -> Ok(dir_len)
    [] OTHER                        -> Ok(len(f[file_path].data))

create_dir_all(f, dir_path) ==
  CASE f[dir_path].kind = "file" -> [res |-> IoErr("AlreadyExists"), fs |-> f]
    [] OTHER -> [res |-> Ok(Unit), fs |-> [f EXCEPT ![dir_path] = Dir]]

\* copy_file that creates the destination before it looks at the source.
copy_file_destination_first(f, source, destination, platform) ==
  CASE f[source].kind = "absent" /\ f[destination].kind # "dir" ->
         [res |-> IoErr("NotFound"), fs |-> [f EXCEPT ![destination] = File(<< >>)]]
    [] f[source].kind = "absent"   -> [res |-> IoErr("NotFound"), fs |-> f]
    [] f[source].kind = "dir"      -> [res |-> IoErr("InvalidInput"), fs |-> f]
    [] f[destination].kind = "dir" -> [res |-> IoErr("IsADirectory"), fs |-> f]
    [] OTHER ->
         [res |-> Ok(len(f[source].data)),
          fs  |-> [f EXCEPT ![destination] = File(f[source].data)]]

\* std::fs::copy opens the source, then creates or truncates the destination
\* and copies what the source holds then.  With both paths naming one file
\* the file is truncated first where the destination can be opened (unix);
\* where it cannot (windows) the call fails.
copy_file(f, source, destination, platform) ==
  CASE f[source].kind = "absent"   -> [res |-> IoErr("NotFound"), fs |-> f]
    [] f[source].kind = "dir"      -> [res |-> IoErr("InvalidInput"), fs |-> f]
    [] f[destination].kind = "dir" -> [res |-> IoErr("IsADirectory"), fs |-> f]
    [] source = destination ->
         IF platform = "unix"
         THEN [res |-> Ok(0), fs |-> [f EXCEPT ![destination] = File(<< >>)]]
         ELSE [res |-> IoErr("PermissionDenied"), fs |-> f]
    [] OTHER ->
         [res |-> Ok(len(f[source].data)),
          fs  |-> [f EXCEPT ![destination] = File(f[source].data)]]

delete_file(f, file_path) ==
  CASE f[file_path].kind = "absent" -> [res |-> IoErr("NotFound"), fs |-> f]
    [] f[file_path].kind = "dir"    -> [res |-> IoErr("IsADirectory"), fs |-> f]
    [] OTHER -> [res |-> Ok(Unit), fs |-> [f EXCEPT ![file_path] = Absent]]

\* read_first_n_lines taking one line too few.
read_first_n_lines_short(f, file_path, n, platform) ==
  CASE f[file_path].kind = "absent" -> IoErr("NotFound")
    [] f[file_path].kind = "dir"    -> IoErr("IsADirectory")
    [] OTHER -> collect(take(lines(f[file_path].data), IF n > 0 THEN n - 1 ELSE 0))

\* A directory opens for reading on unix and every read of it fails, so the
\* error is met only when a line is asked for; on windows it does not open.
read_first_n_lines(f, file_path, n, platform) ==
  CASE f[file_path].kind = "absent" -> IoErr("NotFound")
    [] f[file_path].kind = "dir"    ->
         IF n = 0 /\ platform = "unix" THEN Ok(<< >>) ELSE IoErr("IsADirectory")
    [] OTHER -> collect(take(lines(f[file_path].data), n))

\* u64 arguments: every small number, and numbers around 2^32 and 2^64.
TWO_32 == << 7296, 9496, 42 >>
TWO_63 == << 5808, 5477, 368, 3372, 922 >>
LargeU64 ==
  { TWO_32, BigSub(TWO_32, << 1 >>), MulSmall(TWO_32, 3, 0), << 0, 0, 100 >>,
    TWO_63, U64_MAX }
U64Args == { ToBig(n) : n \in 0 .. MaxGcdArg } \cup LargeU64

(***************************************************************************)
(* The calls.                                                              *)
(***************************************************************************)
NoFiles == [path \in Paths |-> Absent]

Init ==
  /\ pc = "idle"
  /\ op = "none"
  /\ args = << >>
  /\ res = [kind |-> "none", val |-> << >>]
  /\ fs = NoFiles

Return(name, a, r) ==
  /\ pc' = "returned"
  /\ op' = name
  /\ args' = a
  /\ res' = r
  /\ fs' = fs

CallIsLeapYear ==
  /\ pc = "idle"
  /\ \E year \in -MaxLeapYear .. MaxLeapYear :
      Return("is_leap_year", <<year>>, Ok(is_leap_year(year)))

CallDateDifferenceDays ==
  /\ pc = "idle"
  /\ \E date1 \in DateStrs, date2 \in DateStrs :
      Return("date_difference_days", <<date1, date2>>, date_difference_days(date1, date2))

CallValidateDateFormat ==
  /\ pc = "idle"
  /\ \E date_str \in AnyStrs, format \in Formats :
      Return("validate_date_format", <<date_str, format>>,
               validate_date_format(date_str, format))

CallFormatDate ==
  /\ pc = "idle"
  /\ \E date_str \in AnyStrs, input_format \in Formats, output_format \in Formats :
      Return("format_date", <<date_str, input_format, output_format>>,
               format_date(date_str, input_format, output_format))

CallToDdMmYyyy ==
  /\ pc = "idle"
  /\ \E date_str \in AnyStrs :
      Return("to_dd_mm_yyyy", <<date_str>>, to_dd_mm_yyyy(date_str))

CallToYyyyMmDd ==
  /\ pc = "idle"
  /\ \E date_str \in AnyStrs :
      Return("to_yyyy_mm_dd", <<date_str>>, to_yyyy_mm_dd(date_str))

CallCurrentDate ==
  /\ pc = "idle"
  /\ \E now \in NowDates, format \in Formats :
      Return("current_date", <<format>>, current_date(now, format))

CallAddDays ==
  /\ pc = "idle"
  /\ \E date_str \in DateStrs, days \in DayCounts :
      Return("add_days", <<date_str, days>>, add_days(date_str, days))

CallDayOfWeek ==
  /\ pc = "idle"
  /\ \E date_str \in DateStrs :
      Return("day_of_week", <<date_str>>, day_of_week(date_str))

CallFactorial ==
  /\ pc = "idle"
  /\ \E n \in 0 .. MaxFactArg, build \in Builds :
      Return("factorial", <<n>>, factorial(n, build))

CallGcd ==
  /\ pc = "idle"
  /\ \E a \in U64Args, b \in U64Args :
      Return("gcd", <<a, b>>, Ok(gcd(a, b)))

CallLcm ==
  /\ pc = "idle"
  /\ \E a \in U64Args, b \in U64Args, build \in Builds :
      Return("lcm", <<a, b>>, lcm(a, b, build))

CallIsPrime ==
  /\ pc = "idle"
  /\ \E n \in 0 .. MaxPrimeArg :
      Return("is_prime", <<n>>, Ok(is_prime(n)))

CallIsPalindrome ==
  /\ pc = "idle"
  /\ \E s \in PalStrs :
      Return("is_palindrome", <<s>>, Ok(is_palindrome(s)))

Next ==
  \/ CallIsLeapYear
  \/ CallDateDifferenceDays
  \/ CallValidateDateFormat
  \/ CallFormatDate
  \/ CallToDdMmYyyy
  \/ CallToYyyyMmDd
  \/ CallCurrentDate
  \/ CallAddDays
  \/ CallDayOfWeek
  \/ CallFactorial
  \/ CallGcd
  \/ CallLcm
  \/ CallIsPrime
  \/ CallIsPalindrome

Spec == Init /\ [][Next]_vars

(***************************************************************************)
(* The file calls, made one after another on one file system.              *)
(***************************************************************************)
FileStrs == { << >>, << "a" >>, << "é", "\n" >> }
LineStrs == { << >>, << "a" >>, << "a", "\r" >> }
LineLists == UNION { [1 .. n -> LineStrs] : n \in 0 .. MaxLines }

\* The file systems the calls may start on: no file, or a file that is not
\* UTF-8 text from its third byte on.
InitialFs ==
  { NoFiles, [NoFiles EXCEPT !["p"] = File(<< "a", "\n", "0xFF" >>)] }

InitFs ==
  /\ pc = "fs"
  /\ op = "none"
  /\ args = << >>
  /\ res = [kind |-> "none", val |-> << >>]
  /\ fs \in InitialFs

Done(name, a, r, f) ==
  /\ pc' = "fs"
  /\ op' = name
  /\ args' = a
  /\ res' = r
  /\ fs' = f

CallReadFileToString ==
  /\ pc = "fs"
  /\ \E file_path \in Paths :
      Done("read_file_to_string", <<file_path>>, read_file_to_string(fs, file_path), fs)

CallWriteStringToFile ==
  /\ pc = "fs"
  /\ \E file_path \in Paths, content \in FileStrs :
      LET out == write_string_to_file(fs, file_path, content)
      IN  Done("write_string_to_file", <<file_path, content>>, out.res, out.fs)

CallAppendToFile ==
  /\ pc = "fs"
  /\ \E file_path \in Paths, content \in FileStrs :
      /\ Len(fs[file_path].data) + Len(content) <= MaxFileLen
      /\ LET out == append_to_file(fs, file_path, content)
         IN  Done("append_to_file", <<file_path, content>>, out.res, out.fs)

CallReadLines ==
  /\ pc = "fs"
  /\ \E file_path \in Paths :
      Done("read_lines", <<file_path>>, read_lines(fs, file_path), fs)

CallWriteLines ==
  /\ pc = "fs"
  /\ \E file_path \in Paths, ls \in LineLists :
      LET out == write_lines(fs, file_path, ls)
      IN  Done("write_lines", <<file_path, ls>>, out.res, out.fs)

CallFileExists ==
  /\ pc = "fs"
  /\ \E file_path \in Paths :
      Done("file_exists", <<file_path>>, Ok(file_exists(fs, file_path)), fs)

CallFileSize ==
  /\ pc = "fs"
  /\ \E file_path \in Paths, dir_len \in DirLens :
      Done("file_size", <<file_path>>, file_size(fs, file_path, dir_len), fs)

CallCreateDirAll ==
  /\ pc = "fs"
  /\ \E dir_path \in Paths :
      LET out == create_dir_all(fs, dir_path)
      IN  Done("create_dir_all", <<dir_path>>, out.res, out.fs)

CallCopyFile ==
  /\ pc = "fs"
  /\ \E source \in Paths, destination \in Paths, platform \in Platforms :
      LET out == copy_file(fs, source, destination, platform)
      IN  Done("copy_file", <<source, destination>>, out.res, out.fs)

CallDeleteFile ==
  /\ pc = "fs"
  /\ \E file_path \in Paths :
      LET out == delete_file(fs, file_path)
      IN  Done("delete_file", <<file_path>>, out.res, out.fs)

CallReadFirstNLines ==
  /\ pc = "fs"
  /\ \E file_path \in Paths, n \in 0 .. MaxTake, platform \in Platforms :
      Done("read_first_n_lines", <<file_path, n>>,
           read_first_n_lines(fs, file_path, n, platform), fs)

NextFs ==
  \/ CallReadFileToString
  \/ CallWriteStringToFile
  \/ CallAppendToFile
  \/ CallReadLines
  \/ CallWriteLines
  \/ CallFileExists
  \/ CallFileSize
  \/ CallCreateDirAll
  \/ CallCopyFile
  \/ CallDeleteFile
  \/ CallReadFirstNLines

SpecFs == InitFs /\ [][NextFs]_vars

(***************************************************************************)
(* src/main.rs: interactive_mode.  One pass of its loop reads a line and   *)
(* dispatches on the first word; the text of a line is a sequence of       *)
(* characters.                                                             *)
(***************************************************************************)
is_whitespace(c) == c \in { " ", "\t", "\n", "\r" }

\* str::trim
RECURSIVE trim(_)
trim(s) ==
  IF s = << >> THEN s
  ELSE IF is_whitespace(Head(s)) THEN trim(Tail(s))
  ELSE IF is_whitespace(s[Len(s)]) THEN trim(SubSeq(s, 1, Len(s) - 1))
  ELSE s

\* str::split_whitespace().collect(): the maximal runs of characters that
\* are not whitespace; word is the run being read.
RECURSIVE split_whitespace(_, _)
split_whitespace(s, word) ==
  IF s = << >> THEN IF word = << >> THEN << >> ELSE << word >>
  ELSE IF is_whitespace(Head(s))
  THEN (IF word = << >> THEN << >> ELSE << word >>) \o split_whitespace(Tail(s), << >>)
  ELSE split_whitespace(Tail(s), Append(word, Head(s)))

\* The value of a run of decimal digits, as a u64 before any range check.
RECURSIVE digits_value(_, _)
digits_value(ds, acc) ==
  IF ds = << >> THEN acc
  ELSE digits_value(Tail(ds), BigAdd(MulSmall(acc, 10, 0), ToBig(DigitVal(Head(ds)))))

\* str::parse::<u64>: an optional "+", then one or more digits, and a value
\* of at most 2^64 - 1; << >> stands for Err.
parse_u64(token) ==
  LET ds == IF token # << >> /\ Head(token) = "+" THEN Tail(token) ELSE token
  IN  IF ds = << >> \/ \E i \in 1 .. Len(ds) : ds[i] \notin Digit THEN << >>
      ELSE IF BigCmp(digits_value(ds, << >>), U64_MAX) > 0 THEN << >>
      ELSE << digits_value(ds, << >>) >>

\* parts[1..].join(" ")
RECURSIVE join_rest(_)
join_rest(ws) ==
  IF ws = << >> THEN << >>
  ELSE IF Len(ws) = 1 THEN ws[1]
  ELSE ws[1] \o << " " >> \o join_rest(Tail(ws))

Printed(what) == [kind |-> "printed", val |-> what]
Called(name, n, r) ==
  [kind |-> IF r.kind = "panic" THEN "panic" ELSE "printed", val |-> << name, n, r.val >>]

\* is_prime of a parsed number.  Above MaxPrimeArg the trial division is
\* not run: the call returns one of the two truth values, answer.
is_prime_u64(n, answer) ==
  IF BigCmp(n, ToBig(MaxPrimeArg)) <= 0
  THEN is_prime(IF n = << >> THEN 0 ELSE n[1])
  ELSE answer

\* The factorial arm with the bound compared one too high.
factorial_arm_21(parts, build) ==
  IF Len(parts) # 2 THEN Printed(<< "Usage: factorial <number>" >>)
  ELSE LET parsed == parse_u64(parts[2])
       IN  IF parsed = << >> THEN Printed(<< "Invalid number" >>)
           ELSE IF BigCmp(parsed[1], ToBig(21)) <= 0
           THEN LET n == IF parsed[1] = << >> THEN 0 ELSE parsed[1][1]
                IN  Called("factorial", n, factorial(n, build))
           ELSE Printed(<< "Number too large (max 20)" >>)

\* Lines 109-123.
factorial_arm(parts, build) ==
  IF Len(parts) # 2 THEN Printed(<< "Usage: factorial <number>" >>)
  ELSE LET parsed == parse_u64(parts[2])
       IN  IF parsed = << >> THEN Printed(<< "Invalid number" >>)
           ELSE IF BigCmp(parsed[1], ToBig(20)) <= 0
           THEN LET n == IF parsed[1] = << >> THEN 0 ELSE parsed[1][1]
                IN  Called("factorial", n, factorial(n, build))
           ELSE Printed(<< "Number too large (max 20)" >>)

\* One pass of the loop of lines 90-153 on the line read: the arm taken,
\* what it printed or called, and where control goes.
interactive_mode(input, build, answer) ==
  LET parts == split_whitespace(trim(input), << >>)
      Go(arm, out) ==
        [arm |-> arm, out |-> out,
         pc |-> IF out.kind = "panic" THEN "aborted" ELSE "loop"]
  IN  IF parts = << >> THEN Go("empty", Printed(<< >>))
      ELSE CASE parts[1] = << "e", "x", "i", "t" >> ->
                  [arm |-> "exit", out |-> Printed(<< >>), pc |-> "menu"]
             [] parts[1] = << "f", "a", "c", "t", "o", "r", "i", "a", "l" >> ->
                  Go("factorial", factorial_arm(parts, build))
             [] parts[1] = << "p", "r", "i", "m", "e" >> ->
                  IF Len(parts) # 2 THEN Go("prime", Printed(<< "Usage: prime <number>" >>))
                  ELSE IF parse_u64(parts[2]) = << >>
                  THEN Go("prime", Printed(<< "Invalid number" >>))
                  ELSE Go("prime", Called("is_prime", parse_u64(parts[2])[1],
                                          Ok(is_prime_u64(parse_u64(parts[2])[1], answer))))
             [] parts[1] = << "p", "a", "l", "i", "n", "d", "r", "o", "m", "e" >> ->
                  IF Len(parts) < 2
                  THEN Go("palindrome", Printed(<< "Usage: palindrome <text>" >>))
                  ELSE LET text == join_rest(Tail(parts))
                       IN  Go("palindrome", Called("is_palindrome", text, Ok(is_palindrome(text))))
             [] parts[1] = << "r", "e", "v", "e", "r", "s", "e" >> ->
                  IF Len(parts) < 2
                  THEN Go("reverse", Printed(<< "Usage: reverse <text>" >>))
                  ELSE LET text == join_rest(Tail(parts))
                       IN  Go("reverse", Called("reverse_string", text, Ok(rev(text))))
             [] OTHER -> Go("unknown", Printed(<< "Unknown command" >>))

\* read_stdin: one line of standard input, as typed.  The lines are those
\* of at most MaxWords words, single spaces between them, with or without
\* whitespace in front and a line end behind.
read_stdin ==
  LET CliWords ==
        { << "e", "x", "i", "t" >>, << "e", "x", "i", "t", "s" >>,
          << "f", "a", "c", "t", "o", "r", "i", "a", "l" >>, << "p", "r", "i", "m", "e" >>,
          << "p", "a", "l", "i", "n", "d", "r", "o", "m", "e" >>,
          << "r", "e", "v", "e", "r", "s", "e" >>,
          << "2", "0" >>, << "+", "5" >>, << "2", "1" >>, << "a", "b", "a" >>,
          << "1", "8", "4", "4", "6", "7", "4", "4", "0", "7", "3", "7", "0", "9", "5", "5",
             "1", "6", "1", "6" >> }
  IN  { lead \o join_rest(ws) \o trail :
          lead \in { << >>, << " ", "\t" >> },
          ws \in UNION { [1 .. n -> CliWords] : n \in 0 .. MaxWords },
          trail \in { << >>, << "\n" >> } }

InitCli ==
  /\ pc = "prompt"
  /\ op = "none"
  /\ args = << >>
  /\ res = [kind |-> "none", val |-> << >>]
  /\ fs = NoFiles

\* Lines 100-152: a line is read and handled.
ReadAndDispatch ==
  /\ pc = "prompt"
  /\ \E input \in read_stdin, build \in Builds, answer \in BOOLEAN :
      LET pass == interactive_mode(input, build, answer)
      IN  /\ pc' = pass.pc
          /\ op' = pass.arm
          /\ args' = << input >>
          /\ res' = pass.out
          /\ fs' = fs

\* Lines 90-98: the loop goes round and the prompt is printed again.
PromptAgain ==
  /\ pc = "loop"
  /\ pc' = "prompt"
  /\ op' = "none"
  /\ args' = << >>
  /\ res' = [kind |-> "none", val |-> << >>]
  /\ fs' = fs

NextCli == ReadAndDispatch \/ PromptAgain

SpecCli == InitCli /\ [][NextCli]_vars

(***************************************************************************)
(* gcd one iteration at a time (math_utils.rs, lines 51-58).  args keeps   *)
(* the pair the function was called with; res holds the locals a and b     *)
(* while the loop runs and the returned value afterwards.  The loop only   *)
(* takes remainders and copies, so no value in it exceeds its inputs and   *)
(* nothing can overflow: the locals are plain naturals here, and the       *)
(* inputs reach the adjacent Fibonacci numbers below 2^31, the pairs that  *)
(* make the loop run longest.                                              *)
(***************************************************************************)
GcdLoopArgs ==
  (0 .. MaxGcdArg) \cup { 65535, 65536, 1134903170, 1836311903, 2147483647 }

InitGcd ==
  /\ pc = "while"
  /\ op = "gcd"
  /\ \E a \in GcdLoopArgs, b \in GcdLoopArgs :
       /\ args = <<a, b>>
       /\ res = [kind |-> "locals", val |-> <<a, b>>]
  /\ fs = NoFiles

\* The loop body with the remainder left out: the operands are only swapped.
gcd_body_swap(a, b) ==
  LET temp == b
  IN  <<temp, a>>

\* Lines 53-55: temp = b; b = a % b; a = temp.  The result is the new <<a, b>>.
gcd_body(a, b) ==
  LET temp == b
  IN  <<temp, a % b>>

\* Line 52 with b != 0, then the body.
GcdIteration ==
  /\ pc = "while"
  /\ res.val[2] # 0
  /\ res' = [kind |-> "locals", val |-> gcd_body(res.val[1], res.val[2])]
  /\ UNCHANGED <<pc, op, args, fs>>

\* Line 52 with b == 0, then line 57: a is returned.
GcdReturn ==
  /\ pc = "while"
  /\ res.val[2] = 0
  /\ pc' = "returned"
  /\ res' = Ok(res.val[1])
  /\ UNCHANGED <<op, args, fs>>

NextGcd == GcdIteration \/ GcdReturn

\* The call runs on one thread and nothing in the loop waits: a step that
\* can be taken is taken.
FairSpecGcd == InitGcd /\ [][NextGcd]_vars /\ WF_vars(NextGcd)

(***************************************************************************)
(* The calendar the claims are stated against: the proleptic Gregorian     *)
(* calendar read directly, with no part of the model above in it.          *)
(***************************************************************************)
Divides(k, n) == \E q \in -((MaxLeapYear \div k) + 1) .. ((MaxLeapYear \div k) + 1) : n = k * q

GregorianLeap(y) == y % 4 = 0 /\ (y % 100 # 0 \/ y % 400 = 0)

GregorianMonthLength(y, m) ==
  IF m = 2 THEN (IF GregorianLeap(y) THEN 29 ELSE 28)
  ELSE IF m \in {4, 6, 9, 11} THEN 30 ELSE 31

GregorianValid(t) ==
  /\ t[2] >= 1 /\ t[2] <= 12
  /\ t[3] >= 1 /\ t[3] <= GregorianMonthLength(t[1], t[2])

\* Days since 1970-01-01 of the date <<y, m, d>> (the civil-day count over
\* 400-year eras, with the year starting in March).
Ordinal(t) ==
  LET y   == IF t[2] <= 2 THEN t[1] - 1 ELSE t[1]
      era == y \div 400
      yoe == y - era * 400
      mp  == (t[2] + 9) % 12
      doy == ((153 * mp + 2) \div 5) + t[3] - 1
      doe == yoe * 365 + (yoe \div 4) - (yoe \div 100) + doy
  IN  era * 146097 + doe - 719468

After(t, u) ==
  \/ t[1] > u[1]
  \/ t[1] = u[1] /\ t[2] > u[2]
  \/ t[1] = u[1] /\ t[2] = u[2] /\ t[3] > u[3]

\* The fields of a string between the separators.
RECURSIVE Split(_, _)
Split(s, sep) ==
  IF \A i \in DOMAIN s : s[i] # sep THEN << s >>
  ELSE LET k == CHOOSE i \in DOMAIN s : s[i] = sep /\ \A j \in 1..(i - 1) : s[j] # sep
       IN  << SubSeq(s, 1, k - 1) >> \o Split(SubSeq(s, k + 1, Len(s)), sep)

AllDigits(f) == f # << >> /\ \A i \in DOMAIN f : f[i] \in Digit

RECURSIVE Numeral(_)
Numeral(f) == IF f = << >> THEN 0 ELSE Numeral(SubSeq(f, 1, Len(f) - 1)) * 10 + DigitVal(f[Len(f)])

\* The date a YYYY-MM-DD string denotes: <<y, m, d>> when the string is a
\* year of at most four digits, a month and a day of at most two, joined by
\* "-"; << >> otherwise.
ReadYmd(s) ==
  LET f == Split(s, "-")
  IN  IF /\ Len(f) = 3
         /\ AllDigits(f[1]) /\ AllDigits(f[2]) /\ AllDigits(f[3])
         /\ Len(f[1]) <= 4 /\ Len(f[2]) <= 2 /\ Len(f[3]) <= 2
      THEN << Numeral(f[1]), Numeral(f[2]), Numeral(f[3]) >>
      ELSE << >>

DenotesDate(s) == ReadYmd(s) # << >> /\ GregorianValid(ReadYmd(s))

\* A zero-padded YYYY-MM-DD string.
IsPaddedYmd(s) ==
  /\ Len(s) = 10
  /\ s[5] = "-" /\ s[8] = "-"
  /\ \A i \in {1, 2, 3, 4, 6, 7, 9, 10} : s[i] \in Digit

\* Three "-"-separated fields of which one holds a character that is
\* neither a digit nor a sign.
HasNonNumericField(s) ==
  /\ Len(Split(s, "-")) = 3
  /\ \E i \in DOMAIN s : s[i] \notin (Digit \cup {"-", "+"})

Returned(name) == pc = "returned" /\ op = name

S_2023_12_25 == <<"2","0","2","3","-","1","2","-","2","5">>

(***************************************************************************)
(* C1. For every year, is_leap_year(year) is true exactly when the year is *)
(* divisible by 4 and (not divisible by 100 or divisible by 400); 2024 and *)
(* 2000 are leap years, 2023 and 1900 are not.                             *)
(***************************************************************************)
C1_LeapYearRule ==
  Returned("is_leap_year") =>
    /\ res.kind = "ok"
    /\ res.val = (Divides(4, args[1]) /\ (~Divides(100, args[1]) \/ Divides(400, args[1])))
    /\ (args[1] \in {2024, 2000} => res.val = TRUE)
    /\ (args[1] \in {2023, 1900} => res.val = FALSE)

C1_Witness ==
  \/ Returned("is_leap_year") /\ args[1] = 1900 /\ res.val = FALSE
  \/ Returned("is_leap_year") /\ args[1] = -400 /\ res.val = TRUE

(***************************************************************************)
(* C2. For two valid dates a and b, date_difference_days(a, b) is          *)
(* Ordinal(a) - Ordinal(b): positive exactly when a is after b, and exact  *)
(* across leap days and century years.                                     *)
(***************************************************************************)
C2_DifferenceIsOrdinalDifference ==
  Returned("date_difference_days") /\ DenotesDate(args[1]) /\ DenotesDate(args[2]) =>
    /\ res.kind = "ok"
    /\ res.val = Ordinal(ReadYmd(args[1])) - Ordinal(ReadYmd(args[2]))
    /\ (res.val > 0) = After(ReadYmd(args[1]), ReadYmd(args[2]))

C2_Witness ==
  /\ Returned("date_difference_days")
  /\ args[1] = MkYmd(2000, 3, 1, 2)
  /\ args[2] = MkYmd(1900, 2, 28, 2)
  /\ res = Ok(36526)

(***************************************************************************)
(* C3. date_difference_days(d, d) is 0, and date_difference_days(a, b) is  *)
(* the negation of date_difference_days(b, a).                             *)
(***************************************************************************)
C3_DifferenceAntisymmetric ==
  Returned("date_difference_days") /\ DenotesDate(args[1]) /\ DenotesDate(args[2]) =>
    /\ res.kind = "ok"
    /\ (args[1] = args[2] => res.val = 0)
    /\ date_difference_days(args[2], args[1]) = Ok(0 - res.val)

C3_Witness ==
  /\ Returned("date_difference_days")
  /\ args[1] = MkYmd(2023, 1, 1, 2)
  /\ args[2] = MkYmd(2024, 3, 1, 2)
  /\ res = Ok(-425)

(***************************************************************************)
(* C4. For every valid date d and every signed n, add_days(d, n) returns   *)
(* the date n days after d: date_difference_days(add_days(d, n), d) = n.   *)
(***************************************************************************)
C4_AddDaysIsExact ==
  Returned("add_days") /\ DenotesDate(args[1]) =>
    /\ res.kind = "ok"
    /\ date_difference_days(res.val, args[1]) = Ok(args[2])

\* What add_days does: exact whenever the sum is a date chrono can hold.
C4_AddDaysExactOrPanics ==
  Returned("add_days") /\ DenotesDate(args[1]) =>
    \/ res.kind = "ok" /\ date_difference_days(res.val, args[1]) = Ok(args[2])
    \/ res.kind = "panic" /\ (args[2] > 90000000 \/ args[2] < -90000000)

(***************************************************************************)
(* C5. For every date string d that add_days accepts, add_days(d, 0) is    *)
(* the string d.                                                           *)
(***************************************************************************)
C5_AddZeroIsIdentityOnStrings ==
  Returned("add_days") /\ args[2] = 0 /\ res.kind = "ok" => res.val = args[1]

\* C5 as amended: add_days(d, 0) is d for every zero-padded YYYY-MM-DD
\* string d it accepts; for every other accepted string it is the
\* zero-padded rendering of the same date.
C5_AddZeroIsIdentityOnPadded ==
  Returned("add_days") /\ args[2] = 0 =>
    /\ res.kind \in {"ok", "err"}
    /\ (res.kind = "ok" /\ IsPaddedYmd(args[1]) => res.val = args[1])
    /\ (res.kind = "ok" => date_difference_days(res.val, args[1]) = Ok(0))
    /\ (res.kind = "ok" /\ DenotesDate(args[1]) => IsPaddedYmd(res.val))

C5_Witness ==
  \/ Returned("add_days") /\ args = <<S_2023_12_25, 0>> /\ res = Ok(S_2023_12_25)
  \/ Returned("add_days") /\ args = <<MkYmd(2024, 2, 29, 1), 0>>
       /\ res = Ok(MkYmd(2024, 2, 29, 2))

(***************************************************************************)
(* C6. day_of_week agrees with date_difference_days: two valid dates a     *)
(* multiple of 7 days apart have the same day name; the name is one of     *)
(* Monday .. Sunday; 2023-12-25 is a Monday.                               *)
(***************************************************************************)
DayNames == { LONG_WEEKDAYS[i] : i \in 1..7 }

C6_DayOfWeekFollowsDifference ==
  Returned("day_of_week") /\ DenotesDate(args[1]) =>
    /\ res.kind = "ok"
    /\ res.val \in DayNames
    /\ (args[1] = S_2023_12_25 => res.val = <<"M","o","n","d","a","y">>)
    /\ \A b \in YmdStrs :
         DenotesDate(b) /\ date_difference_days(args[1], b).val % 7 = 0
           => day_of_week(b) = res

C6_Witness ==
  /\ Returned("day_of_week")
  /\ args[1] = MkYmd(2024, 1, 1, 2)
  /\ date_difference_days(args[1], S_2023_12_25) = Ok(7)
  /\ res = Ok(<<"M","o","n","d","a","y">>)

C8_FormatFailsExactlyWhenParseFails ==
  Returned("format_date") =>
    IF validate_date_format(args[1], args[2]).val
    THEN res.kind = "ok"
    ELSE res.kind = "err"

HasDirective(f, c) ==
  \E i \in DOMAIN StrftimeItems(f) : StrftimeItems(f)[i] = [t |-> "num", c |-> c]

Separated(f) ==
  LET it == StrftimeItems(f)
  IN  \A i \in 1..(Len(it) - 1) :
        it[i].t = "num" => /\ it[i + 1].t # "num"
                           /\ ~(it[i + 1].t = "lit" /\ it[i + 1].c \in Digit)

NamesADate(f) ==
  /\ HasDirective(f, "Y") /\ HasDirective(f, "m") /\ HasDirective(f, "d")
  /\ Separated(f)

C10_OnlyFactorialAborts ==
  pc = "returned" /\ res.kind = "panic" => op = "factorial" /\ args[1] > 20

(***************************************************************************)
(* The numbers 0!, 1!, ..., 20! written out in decimal, four digits to a   *)
(* limb, lowest limb first.                                                *)
(***************************************************************************)
FactorialTable ==
  << << 1 >>, << 1 >>, << 2 >>, << 6 >>, << 24 >>, << 120 >>, << 720 >>,
     << 5040 >>, << 320, 4 >>, << 2880, 36 >>, << 8800, 362 >>,
     << 6800, 3991 >>, << 1600, 7900, 4 >>, << 800, 2702, 62 >>,
     << 1200, 7829, 871 >>, << 8000, 7436, 3076, 1 >>,
     << 8000, 8988, 9227, 20 >>, << 6000, 2809, 6874, 355 >>,
     << 8000, 572, 3737, 6402 >>, << 2000, 883, 1004, 1645, 12 >>,
     << 0, 7664, 81, 2902, 243 >> >>

NFact(n) == FactorialTable[n + 1]

(***************************************************************************)
(* C11. For n in 0..20 factorial(n) returns exactly n!, and none of the    *)
(* products k * (k-1)! it forms on the way exceeds the u64 range; for      *)
(* n > 20 it panics with "Factorial input too large" having performed no   *)
(* multiplication.                                                         *)
(***************************************************************************)
C11_FactorialExactOrTooLarge ==
  Returned("factorial") =>
    LET n == args[1]
    IN  IF n <= 20
        THEN /\ res.kind = "ok"
             /\ res.val = NFact(n)
             /\ \A k \in 2 .. n :
                  BigCmp(BigMul(ToBig(k), NFact(k - 1)), U64_MAX) <= 0
             /\ \A build \in Builds : factorial_run(n, build).muls = IF n < 2 THEN 0 ELSE n - 1
        ELSE /\ res.kind = "panic"
             /\ res.val = << "Factorial input too large (max 20 to prevent overflow)" >>
             /\ \A build \in Builds : factorial_run(n, build).muls = 0

C11_Witness ==
  /\ Returned("factorial")
  /\ args[1] = 20
  /\ res.kind = "ok"
  /\ res.val = << 0, 7664, 81, 2902, 243 >>
  /\ factorial_run(21, "release").out.kind = "panic"

(***************************************************************************)
(* Divisibility on u64 values: d divides n when n = d * k for some k.      *)
(***************************************************************************)
DividesU64(d, n) == IF d = << >> THEN n = << >> ELSE BigRem(n, d) = << >>

(***************************************************************************)
(* C12. gcd(a, b) is the greatest common divisor: it divides a and b,      *)
(* every common divisor of a and b divides it, gcd(a, b) = gcd(b, a),      *)
(* gcd(0, b) = b and gcd(a, 0) = a.                                        *)
(***************************************************************************)
C12_GcdIsGreatestCommonDivisor ==
  Returned("gcd") =>
    LET a == args[1]
        b == args[2]
        g == res.val
    IN  /\ res.kind = "ok"
        /\ DividesU64(g, a)
        /\ DividesU64(g, b)
        /\ \A d \in U64Args : DividesU64(d, a) /\ DividesU64(d, b) => DividesU64(d, g)
        /\ g = gcd(b, a)
        /\ a = << >> => g = b
        /\ b = << >> => g = a

C12_Witness ==
  /\ Returned("gcd")
  /\ args = << ToBig(18), ToBig(12) >>
  /\ res = Ok(ToBig(6))
  /\ gcd(MulSmall(TWO_32, 3, 0), TWO_63) = TWO_32

(***************************************************************************)
(* C13. lcm(a, b) is 0 when a or b is 0, and otherwise it is the least     *)
(* common multiple a * b / gcd(a, b) whenever that number fits in 64 bits. *)
(***************************************************************************)
LeastCommonMultiple(a, b) == BigMul(BigDiv(a, gcd(a, b)), b)

C13_LcmWheneverRepresentable ==
  Returned("lcm") =>
    LET a == args[1]
        b == args[2]
    IN  /\ a = << >> \/ b = << >> => res.kind = "ok" /\ res.val = << >>
        /\ a # << >> /\ b # << >> /\ BigCmp(LeastCommonMultiple(a, b), U64_MAX) <= 0 =>
             res.kind = "ok" /\ res.val = LeastCommonMultiple(a, b)

(***************************************************************************)
(* C14. is_prime(n) is true exactly when n is prime: false below 2, true   *)
(* for 2, false for every other even n, and for odd n >= 3 false exactly   *)
(* when some odd i with 3 <= i and i * i <= n divides n.                   *)
(***************************************************************************)
Prime(n) == n >= 2 /\ \A d \in 2 .. n - 1 : \A q \in 2 .. n - 1 : d * q # n

C14_IsPrimeExactlyOnPrimes ==
  Returned("is_prime") =>
    LET n == args[1]
    IN  /\ res.kind = "ok"
        /\ res.val = Prime(n)
        /\ n < 2 => res.val = FALSE
        /\ n = 2 => res.val = TRUE
        /\ n > 2 /\ n % 2 = 0 => res.val = FALSE
        /\ n >= 3 /\ n % 2 = 1 =>
             (res.val = FALSE <=>
                \E i \in 3 .. n : i % 2 = 1 /\ i * i <= n /\ n % i = 0)

C14_Witness ==
  /\ Returned("is_prime")
  /\ args[1] = 49
  /\ res = Ok(FALSE)
  /\ is_prime(47)

(***************************************************************************)
(* Letters and digits, and the lower-case letter of each letter.           *)
(***************************************************************************)
LetterOrDigit(c) == c \notin { " " }

LowerCaseLetter(c) ==
  CASE c = "A" -> "a" [] c = "É" -> "é" [] c = "U+0130" -> "i" [] OTHER -> c

Letters(s) ==
  LET kept == SelectSeq(s, LetterOrDigit)
  IN  [i \in 1 .. Len(kept) |-> LowerCaseLetter(kept[i])]

ReadsTheSameBackwards(t) == \A i \in 1 .. Len(t) : t[i] = t[Len(t) + 1 - i]

InsertAt(s, i, c) == SubSeq(s, 1, i) \o << c >> \o SubSeq(s, i + 1, Len(s))

(***************************************************************************)
(* C15. is_palindrome(s) is true exactly when the alphanumeric characters  *)
(* of s, each lower-cased, read the same backwards; putting in a character *)
(* that is not alphanumeric, or changing the case of a letter, never       *)
(* changes the result; the empty string and every one-character string are *)
(* palindromes.                                                            *)
(***************************************************************************)
C15_PalindromeIgnoresCaseAndPunctuation ==
  Returned("is_palindrome") =>
    LET s == args[1]
    IN  /\ res.kind = "ok"
        /\ res.val = ReadsTheSameBackwards(Letters(s))
        /\ Len(s) <= 1 => res.val = TRUE
        /\ \A i \in 0 .. Len(s) : is_palindrome(InsertAt(s, i, " ")) = res.val
        /\ \A i \in 1 .. Len(s) : \A c \in PalChars :
             LowerCaseLetter(c) = LowerCaseLetter(s[i]) =>
               is_palindrome([s EXCEPT ![i] = c]) = res.val

C15_Witness ==
  /\ Returned("is_palindrome")
  /\ args[1] = << "A", " ", "b", "a" >>
  /\ res = Ok(TRUE)
  /\ ~is_palindrome(<< "a", "b", " ", "1" >>)

(***************************************************************************)
(* The file claims are stated on the state a file call leaves.             *)
(***************************************************************************)
FsReturned(name) == pc = "fs" /\ op = name

\* The number of bytes of a text: one for each character and one more for
\* each character outside ASCII that the model writes.
Utf8Length(text) == Len(text) + Len(SelectSeq(text, LAMBDA c : c = "é"))

(***************************************************************************)
(* C16. After write_string_to_file(p, c) succeeds, read_file_to_string(p)  *)
(* returns exactly c, whatever p named before, and file_size(p) is the     *)
(* byte length of c.                                                       *)
(***************************************************************************)
C16_WriteThenReadAndSize ==
  FsReturned("write_string_to_file") /\ res.kind = "ok" =>
    /\ read_file_to_string(fs, args[1]) = Ok(args[2])
    /\ \A dir_len \in DirLens :
         file_size(fs, args[1], dir_len) = Ok(Utf8Length(args[2]))

C16_Witness ==
  /\ FsReturned("write_string_to_file")
  /\ res.kind = "ok"
  /\ args = << "p", << "é", "\n" >> >>
  /\ file_size(fs, "p", 0) = Ok(3)
  /\ fs["q"].kind = "file"

(***************************************************************************)
(* C17. A successful append_to_file(p, c) leaves p holding what it held    *)
(* before followed by c; when p did not exist it holds exactly c.          *)
(***************************************************************************)
C17_AppendKeepsPreviousContent ==
  [][ op' = "append_to_file" /\ res'.kind = "ok" =>
        LET p == args'[1]
            c == args'[2]
        IN  /\ fs[p].kind = "file" => fs'[p] = File(fs[p].data \o c)
            /\ fs[p].kind = "absent" => fs'[p] = File(c)
    ]_vars

C17_Witness ==
  /\ FsReturned("append_to_file")
  /\ res.kind = "ok"
  /\ args = << "p", << "é", "\n" >> >>
  /\ fs["p"] = File(<< "a", "é", "\n" >>)

(***************************************************************************)
(* C18. After write_lines(p, lines), with no "\n" in any line, the file    *)
(* holds the lines joined by single "\n" with no trailing newline, and     *)
(* read_lines(p) returns lines.                                            *)
(***************************************************************************)
JoinedByNewline(content, ls) ==
  IF ls = << >> THEN content = << >> ELSE Split(content, "\n") = ls

C18_LineRoundTrip ==
  FsReturned("write_lines") /\ res.kind = "ok" =>
    /\ fs[args[1]].kind = "file"
    /\ JoinedByNewline(fs[args[1]].data, args[2])
    /\ read_lines(fs, args[1]) = Ok(args[2])

\* C18 as amended: the file holds the joined lines always; read_lines
\* returns lines exactly when the list is empty or its last line is not
\* empty, and no line but the last ends with "\r".
ReadsBackAsWritten(ls) ==
  /\ ls = << >> \/ ls[Len(ls)] # << >>
  /\ \A i \in 1 .. Len(ls) - 1 : ls[i] = << >> \/ ls[i][Len(ls[i])] # "\r"

C18_LineRoundTripWhenLastLineNonEmpty ==
  FsReturned("write_lines") /\ res.kind = "ok" =>
    /\ fs[args[1]].kind = "file"
    /\ JoinedByNewline(fs[args[1]].data, args[2])
    /\ ReadsBackAsWritten(args[2]) <=> read_lines(fs, args[1]) = Ok(args[2])

C18_Witness ==
  /\ FsReturned("write_lines")
  /\ res.kind = "ok"
  /\ args = << "p", << << >>, << "a", "\r" >> >> >>
  /\ fs["p"] = File(<< "\n", "a", "\r" >>)
  /\ read_lines(fs, "p") = Ok(args[2])

(***************************************************************************)
(* C19. For a file p whose lines read_lines(p) returns, and every n,       *)
(* read_first_n_lines(p, n) returns the first min(n, number of lines) of   *)
(* them, in file order.                                                    *)
(***************************************************************************)
C19_FirstLinesArePrefixOfAllLines ==
  FsReturned("read_first_n_lines") /\ fs[args[1]].kind = "file" =>
    LET all == read_lines(fs, args[1])
        n   == args[2]
    IN  all.kind = "ok" =>
          /\ res.kind = "ok"
          /\ Len(res.val) = IF n < Len(all.val) THEN n ELSE Len(all.val)
          /\ \A i \in 1 .. Len(res.val) : res.val[i] = all.val[i]

C19_Witness ==
  /\ FsReturned("read_first_n_lines")
  /\ args = << "p", 1 >>
  /\ fs["p"] = File(<< "a", "\n", "a" >>)
  /\ res = Ok(<< << "a" >> >>)

(***************************************************************************)
(* C20. A successful copy_file(src, dst) of a file returns file_size(src), *)
(* leaves dst a file with the content of src, and leaves src as it was.    *)
(***************************************************************************)
C20_CopyKeepsSource ==
  [][ op' = "copy_file" /\ res'.kind = "ok" /\ fs[args'[1]].kind = "file" =>
        LET src == args'[1]
            dst == args'[2]
        IN  /\ res'.val = Utf8Length(fs[src].data)
            /\ fs'[dst] = fs[src]
            /\ fs'[src] = fs[src]
    ]_vars

\* What does hold: the same for two different paths.
C20_CopyToAnotherPathKeepsSource ==
  [][ op' = "copy_file" /\ res'.kind = "ok" /\ args'[1] # args'[2] =>
        LET src == args'[1]
            dst == args'[2]
        IN  /\ fs[src].kind = "file"
            /\ res'.val = Utf8Length(fs[src].data)
            /\ fs'[dst] = fs[src]
            /\ fs'[src] = fs[src]
    ]_vars

(***************************************************************************)
(* C21. Called on a path that names nothing, read_file_to_string,          *)
(* read_lines, read_first_n_lines, file_size, copy_file (the source) and   *)
(* delete_file return an error value in the one step the call takes and    *)
(* leave every path as it was; after a successful delete_file(p),          *)
(* file_exists(p) is false.                                                *)
(***************************************************************************)
FailOnMissing ==
  { "read_file_to_string", "read_lines", "read_first_n_lines", "file_size",
    "copy_file", "delete_file" }

Blank(c) == c \in { " ", "\t", "\n", "\r" }

FirstWordOf(line) ==
  LET inked == { i \in 1 .. Len(line) : ~Blank(line[i]) }
  IN  IF inked = { } THEN << >>
      ELSE LET b == CHOOSE i \in inked : \A j \in inked : i <= j
               e == CHOOSE j \in b .. Len(line) :
                      /\ \A k \in b .. j : ~Blank(line[k])
                      /\ j = Len(line) \/ Blank(line[j + 1])
           IN  SubSeq(line, b, e)

Handled == pc \in { "loop", "menu", "aborted" }

(***************************************************************************)
(* C22. In interactive mode, whatever lines are typed, factorial is called *)
(* only with n <= 20 (a larger or non-numeric argument prints a message),  *)
(* no line aborts the loop, and the loop returns to the main menu exactly  *)
(* on a line whose first word is "exit"; every other line keeps it going.  *)
(***************************************************************************)
C22_InteractiveLoopLeavesOnlyOnExit ==
  /\ pc # "aborted"
  /\ Handled =>
       /\ res.val # << >> /\ res.val[1] = "factorial" => res.val[2] <= 20
       /\ op = "factorial" /\ res.val # << >> /\ res.val[1] # "factorial" =>
            /\ res.kind = "printed"
            /\ res.val[1] \in { "Usage: factorial <number>", "Invalid number",
                                "Number too large (max 20)" }
       /\ pc = "menu" <=> FirstWordOf(args[1]) = << "e", "x", "i", "t" >>
       /\ pc = "loop" <=> FirstWordOf(args[1]) # << "e", "x", "i", "t" >>

C22_Witness ==
  /\ pc = "loop"
  /\ op = "factorial"
  /\ args[1] = << " ", "\t", "f", "a", "c", "t", "o", "r", "i", "a", "l", " ", "2", "1", "\n" >>
  /\ res = Printed(<< "Number too large (max 20)" >>)
  /\ interactive_mode(<< "e", "x", "i", "t", " ", "2", "1" >>, "debug", TRUE).pc = "menu"
  /\ interactive_mode(<< "e", "x", "i", "t", "s" >>, "debug", TRUE).pc = "loop"


\* C23: the loop of gcd terminates for every pair of inputs: each iteration
\* runs with b # 0 and leaves a strictly smaller b (the remainder of a by
\* b), the function returns only once b is 0, and what it returns is a, the
\* value of gcd(a, b) for the pair it was called with; every call returns,
\* also when a < b and when a or b is 0.
C23_GcdLoopTerminates ==
  /\ [][ /\ pc' = "while" =>
              /\ res.val[2] # 0
              /\ res'.val[2] = res.val[1] % res.val[2]
              /\ res'.val[2] < res.val[2]
         /\ pc' = "returned" =>
              /\ res.val[2] = 0
              /\ res' = Ok(res.val[1])
              /\ ToBig(res.val[1]) = gcd(ToBig(args[1]), ToBig(args[2])) ]_vars
  /\ <>(pc = "returned")

\* gcd(12, 18) has returned 6 (a < b: the first iteration swaps the
\* operands); with a = 0 one iteration leaves b = 0, and with b = 0 the loop
\* body does not run.
C23_Witness ==
  /\ pc = "returned"
  /\ args = << 12, 18 >>
  /\ res = Ok(6)
  /\ gcd_body(12, 18) = << 18, 12 >>
  /\ gcd_body(0, 5) = << 5, 0 >>

====
